---- MODULE Spec2Model ----
(***************************************************************************)
(* A model of llmcli: the run function of main.go (prompt assembly,        *)
(* attachment resolution, request building, dispatch with the throttle     *)
(* fallback, the streaming response consumer and the output loop).         *)
(*                                                                         *)
(* Byte strings are sequences of tokens.  A token is one byte (" ", "\n",  *)
(* "a", the invalid byte "0xFF") or a fixed multi-byte literal of the      *)
(* source ("<document>", "</document>", "<filename>", ...).                *)
(***************************************************************************)
EXTENDS Integers, Sequences, FiniteSets, TLC

VARIABLES
    prog,          \* filepath.Base(os.Args[0]): the name the program runs under
    pc,            \* position inside run (inside chatgpt: "gpt:...")
    args,          \* runArgs, as filled by main's flag parsing
    stdinData,     \* readPrompt: the bytes read from stdin
    prompt,        \* run: the prompt readPrompt returned
    handler,       \* run: what loadHandlers returned (NoHandlers for nil)
    attIdx,        \* run: how many attachment names the loop has taken
    contentBlocks, \* run: the content list
    invoked,       \* every external command started, in order
    fileReads,     \* every name read as a local file, in order
    resolved,      \* every attToBlock call that returned: name, file read, result
    input,         \* run: the ConverseStreamInput
    dispatches,    \* every ConverseStream call made: the request and its outcome
    fallbackEnv,   \* LLMCLI_FALLBACK_ON_THROTTLE as read ("unread" until then)
    events,        \* responseConsumer: the events read from the stream so far
    pending,       \* responseConsumer: the chunk handed to yield (<<>> if none)
    chunks,        \* every chunk the caller received, in order
    rcErr,         \* responseConsumer.err
    usage,         \* responseConsumer.usage
    closed,        \* whether stream.Close() has run
    streamErr,     \* what stream.Err() returned ("unread" until it is called)
    yieldRet,      \* what the last call of yield returned (TRUE before any)
    thinking,      \* run: the output loop's thinking flag
    out,           \* every string written to wr, in order
    tty,           \* every escape sequence termWrite wrote to the terminal
    stdoutIsTerm,  \* the memoized stdoutIsTerm ("unknown" until first asked)
    retErr,        \* what run returned ("running" until it returns)
    payload,       \* chatgpt: the marshalled request
    attempts,      \* chatgpt: every call of fn made by the retry, with its outcome
    sleeps,        \* chatgpt: every delay the retry asked its delay function for
    scanned,       \* streamResponse: the lines the scanner has returned
    wbuf           \* streamResponse: what the bufio.Writer holds unflushed

vars == <<prog, pc, args, stdinData, prompt, handler, attIdx, contentBlocks, invoked,
          fileReads, resolved, input, dispatches, fallbackEnv, events, pending,
          chunks, rcErr, usage, closed, streamErr, yieldRet, thinking, out, tty,
          stdoutIsTerm, retErr, payload, attempts, sleeps, scanned, wbuf>>

promptVars == <<stdinData, prompt>>
attachVars == <<handler, attIdx, contentBlocks, invoked, fileReads, resolved>>
requestVars == <<input, dispatches, fallbackEnv>>
consumerVars == <<events, pending, chunks, rcErr, usage, closed, streamErr,
                  yieldRet>>
outputVars == <<thinking, out, tty, stdoutIsTerm>>
gptVars == <<payload, attempts, sleeps, scanned, wbuf>>

\* Nothing of chatgpt has run.
GptIdle ==
    /\ payload = <<>>
    /\ attempts = <<>>
    /\ sleeps = <<>>
    /\ scanned = <<>>
    /\ wbuf = <<>>

----------------------------------------------------------------------------
(* Bounds of the model. *)

\* The longest event stream the consumer is fed on its own.
MaxEvents == 3
\* The longest event stream inside a whole run.
MaxRunEvents == 1
\* The most -f flags of a run.
MaxAttach == 3

----------------------------------------------------------------------------
(* Byte strings. *)

NoError == "nil"

IsSpace(c) == c \in {" ", "\n"}

RECURSIVE TrimLeft(_)
TrimLeft(b) ==
    IF b # <<>> /\ IsSpace(Head(b)) THEN TrimLeft(Tail(b)) ELSE b

RECURSIVE TrimRight(_)
TrimRight(b) ==
    IF b # <<>> /\ IsSpace(b[Len(b)])
    THEN TrimRight(SubSeq(b, 1, Len(b) - 1))
    ELSE b

\* bytes.TrimSpace
TrimSpace(b) == TrimRight(TrimLeft(b))

\* utf8.Valid: the byte 0xFF never occurs in valid UTF-8
utf8Valid(b) == \A i \in 1..Len(b) : b[i] # "0xFF"

\* strings.HasPrefix
HasPrefix(s, p) == Len(p) <= Len(s) /\ SubSeq(s, 1, Len(p)) = p

tagDocOpen == <<"<document>", "\n">>
tagDocClose == <<"</document>", "\n">>

----------------------------------------------------------------------------
(* readPrompt: the prompt from the -q text and stdin. *)

errEmptyPrompt == "empty prompt: please feed it over stdin and/or use the -q flag"
errNotUtf8 == "can only take valid utf8 data on stdin"
errStdinRead == "stdin read error"

\* What io.ReadAll(os.Stdin) gives: the bytes and the error.
StdinRead(bytes, e) == [bytes |-> bytes, err |-> e]

\* stdinData and err after lines 301-306: stdin is read unless it is a
\* terminal and a query was given.  io.ReadAll returns the bytes read so far
\* together with its error.
StdinDataOf(q, stdinIsTerminal, rd) ==
    IF ~stdinIsTerminal \/ (stdinIsTerminal /\ q = <<>>)
    THEN rd
    ELSE StdinRead(<<>>, NoError)

\* A readPrompt that takes only no stdin at all for an empty stdin.
PromptOf_NoTrim(q, rd) ==
    IF rd.err # "nil" THEN [val |-> <<>>, err |-> rd.err]
    ELSE IF Len(rd.bytes) = 0 /\ q = <<>>
    THEN [val |-> <<>>, err |-> errEmptyPrompt]
    ELSE IF ~utf8Valid(rd.bytes) THEN [val |-> <<>>, err |-> errNotUtf8]
    ELSE IF q = <<>> THEN [val |-> rd.bytes, err |-> "nil"]
    ELSE IF Len(rd.bytes) # 0
    THEN [val |-> tagDocOpen \o rd.bytes \o tagDocClose \o <<"\n">> \o q,
          err |-> "nil"]
    ELSE [val |-> q, err |-> "nil"]

\* readPrompt, lines 307-331, from the query and what was read.
PromptOf(q, rd) ==
    IF rd.err # NoError THEN [val |-> <<>>, err |-> rd.err]
    ELSE IF Len(TrimSpace(rd.bytes)) = 0 /\ q = <<>>
    THEN [val |-> <<>>, err |-> errEmptyPrompt]
    ELSE IF ~utf8Valid(rd.bytes) THEN [val |-> <<>>, err |-> errNotUtf8]
    ELSE IF q = <<>> THEN [val |-> rd.bytes, err |-> NoError]
    ELSE IF Len(TrimSpace(rd.bytes)) # 0
    THEN [val |-> tagDocOpen \o rd.bytes \o tagDocClose \o <<"\n">> \o q,
          err |-> NoError]
    ELSE [val |-> q, err |-> NoError]

readPrompt(q, stdinIsTerminal, rd) ==
    PromptOf(q, StdinDataOf(q, stdinIsTerminal, rd))

\* run, lines 120-123: the prompt is read first; its error ends run.
\* reads: what stdin can hold (and whether it is a terminal, and whether
\* reading it fails).
ReadPrompt(reads) ==
    /\ pc = "readPrompt"
    /\ \E r \in reads :
         LET rd == StdinDataOf(args.q, r.term, StdinRead(r.bytes, r.err))
             res == PromptOf(args.q, rd)
         IN /\ stdinData' = rd
            /\ prompt' = res.val
            /\ retErr' = IF res.err # NoError THEN res.err ELSE retErr
            /\ pc' = IF res.err # NoError THEN "done" ELSE "loadHandlers"
    /\ UNCHANGED <<prog, gptVars, args, attachVars, requestVars, consumerVars, outputVars>>

----------------------------------------------------------------------------
(* contentBlockFromFile: a local file as a content block. *)

\* What os.ReadFile(p) gives; big says the file is longer than 50 MiB.
FileRead(e, bytes, big) == [err |-> e, bytes |-> bytes, big |-> big]

errFileRead == "open: no such file or directory"
errTooBig == "maximum document size supported is 50Mb"
errUnsupported == "file is of unsupported content-type "

\* http.DetectContentType: a signature at the start of the data decides;
\* data without one is text/plain unless it holds a binary byte.  The tokens
\* "PNG", "JPEG", "GIF", "WEBP", "BMP" and "%PDF" stand for the signatures.
DetectContentType(b) ==
    IF b = <<>> THEN "text/plain; charset=utf-8"
    ELSE CASE Head(b) = "PNG" -> "image/png"
           [] Head(b) = "JPEG" -> "image/jpeg"
           [] Head(b) = "GIF" -> "image/gif"
           [] Head(b) = "WEBP" -> "image/webp"
           [] Head(b) = "BMP" -> "image/bmp"
           [] Head(b) = "%PDF" -> "application/pdf"
           [] OTHER -> IF \E i \in 1..Len(b) : b[i] = "0x00"
                       THEN "application/octet-stream"
                       ELSE "text/plain; charset=utf-8"

IsImageType(ct) ==
    ct \in {"image/png", "image/jpeg", "image/gif", "image/webp", "image/bmp"}

\* The extension tokens a name can end with.
ExtTokens ==
    {".pdf", ".PDF", ".md", ".mkd", ".html", ".doc", ".docx", ".csv", ".txt",
     ".TXT", ".png", ".bin"}

\* filepath.Ext: the extension is the last token of the name, if it is one.
Ext(p) == IF p # <<>> /\ p[Len(p)] \in ExtTokens THEN p[Len(p)] ELSE ""

\* An extension switch that compares the extension as it is spelled.
ToLower_AsSpelled(x) == x

\* strings.ToLower on an extension
ToLower(x) ==
    CASE x = ".PDF" -> ".pdf"
      [] x = ".TXT" -> ".txt"
      [] OTHER -> x

\* strings.TrimSuffix(filepath.Base(p), filepath.Ext(p))
DocNameOf(p) == IF Ext(p) = "" THEN p ELSE SubSeq(p, 1, Len(p) - 1)

NoBlock == [type |-> "none", format |-> "", value |-> <<>>, name |-> <<>>]
TextBlock(v) == [type |-> "Text", format |-> "", value |-> v, name |-> <<>>]
ImageBlock(f, b) == [type |-> "Image", format |-> f, value |-> b, name |-> <<>>]
DocumentBlock(f, b, n) ==
    [type |-> "Document", format |-> f, value |-> b, name |-> n]

Failed(e) == [err |-> e, block |-> NoBlock]
Resolved(b) == [err |-> NoError, block |-> b]

\* lines 347-358: the image format of a sniffed image type ("" : none)
ImageFormatOf(ct) ==
    CASE ct = "image/jpeg" -> "jpeg"
      [] ct = "image/png" -> "png"
      [] ct = "image/gif" -> "gif"
      [] ct = "image/webp" -> "webp"
      [] OTHER -> ""

\* lines 369-390: the document format of an extension and a sniffed type
\* ("" : none)
DocumentFormatOf(ext, ct) ==
    CASE ToLower(ext) = ".pdf" -> "pdf"
      [] ToLower(ext) \in {".md", ".mkd"} -> "md"
      [] ToLower(ext) = ".html" -> "html"
      [] ToLower(ext) = ".doc" -> "doc"
      [] ToLower(ext) = ".docx" -> "docx"
      [] ToLower(ext) = ".csv" -> "csv"
      [] ToLower(ext) = ".txt" -> "txt"
      [] OTHER -> IF ct = "text/plain; charset=utf-8" THEN "txt" ELSE ""

\* A conversion that wraps the file like a command's output, without the
\* file name.
WrappedFile_NoFilename(p, b) ==
    LET text == <<"<document>", "\n">> \o b
    IN (IF text[Len(text)] # "\n" THEN Append(text, "\n") ELSE text)
       \o <<"</document>", "\n">>

\* lines 401-409: a plain text file as text inside <document> tags
WrappedFile(p, b) ==
    LET text == <<"<document>", "<filename>">> \o p \o <<"</filename>", "\n">> \o b
    IN (IF text[Len(text)] # "\n" THEN Append(text, "\n") ELSE text)
       \o tagDocClose

contentBlockFromFile(p, rf) ==
    IF rf.err # NoError THEN Failed(rf.err)
    ELSE IF rf.big THEN Failed(errTooBig)
    ELSE LET ct == DetectContentType(rf.bytes) IN
         IF IsImageType(ct)
         THEN IF ImageFormatOf(ct) = "" THEN Failed(errUnsupported \o ct)
              ELSE Resolved(ImageBlock(ImageFormatOf(ct), rf.bytes))
         ELSE LET format == DocumentFormatOf(Ext(p), ct) IN
              IF format = "" THEN Failed(errUnsupported \o ct)
              ELSE IF format \in {"md", "txt", "csv"} /\ utf8Valid(rf.bytes)
              THEN Resolved(TextBlock(WrappedFile(p, rf.bytes)))
              ELSE Resolved(DocumentBlock(format, rf.bytes, DocNameOf(p)))

----------------------------------------------------------------------------
(* loadHandlers and attHandlers.attToBlock: attachments through commands. *)

Rule(prefix, cmd) == [Prefix |-> prefix, Cmd |-> cmd]

NoHandlers == [nil |-> TRUE, byPrefix |-> <<>>]

\* loadHandlers: nil unless att-handlers.json opens, decodes and holds a
\* rule.  cfg.ok says the file opened and decoded.
loadHandlers(cfg) ==
    IF ~cfg.ok \/ Len(cfg.rules) = 0 THEN NoHandlers
    ELSE [nil |-> FALSE, byPrefix |-> cfg.rules]

ARG == <<"${ARG}">>

\* A loop that lets a rule with an empty prefix match every name.
Skipped_EmptyPrefixMatches(m, name) ==
    Len(m.Cmd) = 0 \/ ~HasPrefix(name, m.Prefix)

\* line 447: the rules the loop passes over
Skipped(m, name) ==
    m.Prefix = <<>> \/ Len(m.Cmd) = 0 \/ ~HasPrefix(name, m.Prefix)

\* The loop of line 446: the index of the rule applied, from rule i on (0 if
\* the loop ends without one).
RECURSIVE ScanRules(_, _, _)
ScanRules(rules, name, i) ==
    IF i > Len(rules) THEN 0
    ELSE IF Skipped(rules[i], name) THEN ScanRules(rules, name, i + 1)
    ELSE i

\* The loop of lines 452-458: the index of the argument replaced, from
\* argument i on (0 if none is).
RECURSIVE FirstPlaceholder(_, _)
FirstPlaceholder(a, i) ==
    IF i > Len(a) THEN 0
    ELSE IF a[i] = ARG THEN i
    ELSE FirstPlaceholder(a, i + 1)

\* lines 450-461: the arguments of the command
ArgsOf(cmd, name) ==
    LET a == SubSeq(cmd, 2, Len(cmd))
        k == FirstPlaceholder(a, 1)
    IN IF k = 0 THEN Append(a, name) ELSE [a EXCEPT ![k] = name]

\* What cmd.Output() gives.
ExecResult(e, bytes) == [err |-> e, bytes |-> bytes]

errExec == "exit status 1"
errExecUtf8 == "command output is not a valid utf8"

\* lines 470-475: the command's output as text inside <document> tags
WrappedOutput(b) ==
    LET text == tagDocOpen \o b
    IN (IF text[Len(text)] # "\n" THEN Append(text, "\n") ELSE text)
       \o tagDocClose

NoCommand == <<>>

\* No file was read (a command gave the block).
NoFile == [err |-> "not read", bytes |-> <<>>, big |-> FALSE]

\* attToBlock: the result, the rule applied (0 : none) and the command
\* started (NoCommand : none).  ex is what the command gives if one is
\* started, rf what reading the file gives if it is read.
attToBlock(h, name, ex, rf) ==
    LET k == IF h.nil THEN 0 ELSE ScanRules(h.byPrefix, name, 1) IN
    IF k = 0
    THEN [res |-> contentBlockFromFile(name, rf), rule |-> 0,
          argv |-> NoCommand, read |-> TRUE]
    ELSE LET m == h.byPrefix[k]
             argv == <<m.Cmd[1]>> \o ArgsOf(m.Cmd, name)
             res == IF ex.err # NoError THEN Failed("running: " \o ex.err)
                    ELSE IF ~utf8Valid(ex.bytes) THEN Failed(errExecUtf8)
                    ELSE Resolved(TextBlock(WrappedOutput(ex.bytes)))
         IN [res |-> res, rule |-> k, argv |-> argv, read |-> FALSE]

\* A compaction that drops every repeated element, adjacent or not.
RECURSIVE Compact_Unique(_)
Compact_Unique(s) ==
    IF s = <<>> THEN <<>>
    ELSE LET init == Compact_Unique(SubSeq(s, 1, Len(s) - 1))
             x == s[Len(s)]
         IN IF \E i \in 1..Len(init) : init[i] = x THEN init
            ELSE Append(init, x)

\* slices.Compact: runs of equal adjacent elements become one
RECURSIVE Compact(_)
Compact(s) ==
    IF Len(s) <= 1 THEN s
    ELSE IF s[1] = s[2] THEN Compact(Tail(s))
    ELSE <<s[1]>> \o Compact(Tail(s))

\* run, line 127: handler := loadHandlers()
LoadHandlers(cfgs) ==
    /\ pc = "loadHandlers"
    /\ \E cfg \in cfgs : handler' = loadHandlers(cfg)
    /\ pc' = "attach"
    /\ UNCHANGED <<prog, gptVars, args, promptVars, attIdx, contentBlocks, invoked, fileReads,
                   resolved, requestVars, consumerVars, outputVars, retErr>>

\* A loop that records the error of an attachment and goes on to the next.
ResolveAttachment_KeepsGoing(execs, files) ==
    /\ pc = "attach"
    /\ attIdx < Len(Compact(args.attach))
    /\ \E ex \in execs, rf \in files :
         LET name == Compact(args.attach)[attIdx + 1]
             r == attToBlock(handler, name, ex, rf)
         IN /\ attIdx' = attIdx + 1
            /\ invoked' = IF r.argv = <<>> THEN invoked
                          ELSE Append(invoked, r.argv)
            /\ fileReads' = IF r.read THEN Append(fileReads, name)
                            ELSE fileReads
            /\ resolved' = Append(resolved,
                                  [name |-> name,
                                   file |-> IF r.read THEN rf ELSE NoFile,
                                   res |-> r.res])
            /\ contentBlocks' = IF r.res.err # "nil" THEN contentBlocks
                                ELSE Append(contentBlocks, r.res.block)
            /\ retErr' = IF r.res.err # "nil" THEN r.res.err ELSE retErr
            /\ pc' = "attach"
    /\ UNCHANGED <<prog, gptVars, args, promptVars, handler, requestVars,
                   consumerVars, outputVars>>

\* run, lines 128-134: one turn of the loop over the attachment names
ResolveAttachment(execs, files) ==
    /\ pc = "attach"
    /\ attIdx < Len(Compact(args.attach))
    /\ \E ex \in execs, rf \in files :
         LET name == Compact(args.attach)[attIdx + 1]
             r == attToBlock(handler, name, ex, rf)
         IN /\ attIdx' = attIdx + 1
            /\ invoked' = IF r.argv = NoCommand THEN invoked
                          ELSE Append(invoked, r.argv)
            /\ fileReads' = IF r.read THEN Append(fileReads, name)
                            ELSE fileReads
            /\ resolved' = Append(resolved,
                                  [name |-> name,
                                   file |-> IF r.read THEN rf ELSE NoFile,
                                   res |-> r.res])
            /\ contentBlocks' = IF r.res.err # NoError THEN contentBlocks
                                ELSE Append(contentBlocks, r.res.block)
            /\ retErr' = IF r.res.err # NoError THEN r.res.err ELSE retErr
            /\ pc' = IF r.res.err # NoError THEN "done" ELSE "attach"
    /\ UNCHANGED <<prog, gptVars, args, promptVars, handler, requestVars, consumerVars,
                   outputVars>>

----------------------------------------------------------------------------
(* run: the request and its dispatch. *)

fallbackModelId == "anthropic.claude-3-sonnet-20240229-v1:0"
defaultModelId == "anthropic.claude-3-5-sonnet-20240620-v1:0"
haikuModelId == "anthropic.claude-3-haiku-20240307-v1:0"
claude37ModelId == "us.anthropic.claude-3-7-sonnet-20250219-v1:0"

\* strings.Contains(args.model, "claude-3-7"), over the model names used
ContainsClaude37(m) == m = claude37ModelId

\* lines 150-154: cmp.Or with the default, then the haiku alias
ModelIdOf(m) ==
    LET id == IF m # "" THEN m ELSE defaultModelId
    IN IF id = "haiku" THEN haikuModelId ELSE id

NoTemp == "nil"

\* line 166: int32(args.budget * 2).  ParseUint(val, 10, 17) keeps the budget
\* below 2^17, so the product is below 2^18 and the conversion changes nothing.
maxTokensOf(budget) == budget * 2

\* thinking(budget): the additional model request fields (0 : none)
thinkingOf(budget) == budget

\* input.InferenceConfig after lines 164-168 and 180-182 (set: not nil;
\* MaxTokens 0 and Temperature NoTemp: nil fields)
InferenceConfigOf(t, budget) ==
    IF t # NoTemp /\ budget # 0
    THEN [set |-> TRUE, MaxTokens |-> 0, Temperature |-> t]
    ELSE IF budget # 0
    THEN [set |-> TRUE, MaxTokens |-> maxTokensOf(budget), Temperature |-> NoTemp]
    ELSE [set |-> FALSE, MaxTokens |-> 0, Temperature |-> NoTemp]

\* What os.ReadFile(args.sys) gives, with the path ("" : no path).
SysRead(path, e, bytes) == [path |-> path, err |-> e, bytes |-> bytes]

\* lines 169-179: the date line, then the trimmed file if there is one
SystemPromptOf(sys) ==
    IF sys.path # "" /\ sys.err = NoError
       /\ Len(TrimSpace(sys.bytes)) # 0 /\ utf8Valid(TrimSpace(sys.bytes))
    THEN <<"Today is DATE", ".", "\n">> \o TrimSpace(sys.bytes)
    ELSE <<"Today is DATE">>

NoInput ==
    [ModelId |-> "", Content |-> <<>>, Additional |-> 0,
     InferenceConfig |-> InferenceConfigOf(NoTemp, 0), System |-> <<>>]

\* lines 155-182: the ConverseStreamInput
InputOf(a, blocks, sys) ==
    [ModelId |-> ModelIdOf(a.model),
     Content |-> blocks,
     Additional |-> IF a.budget # 0 THEN thinkingOf(a.budget) ELSE 0,
     InferenceConfig |-> InferenceConfigOf(a.t, a.budget),
     System |-> SystemPromptOf(sys)]

errConfig == "failed to load configuration"

\* A request whose content list starts with the prompt.
BuildInput_PromptFirst(cfgErrs, sysReads) ==
    /\ pc = "attach"
    /\ attIdx = Len(Compact(args.attach))
    /\ contentBlocks' = <<TextBlock(prompt)>> \o contentBlocks
    /\ \E ce \in cfgErrs, sys \in sysReads :
         IF ce # "nil"
         THEN /\ retErr' = ce
              /\ pc' = "done"
              /\ input' = input
         ELSE /\ retErr' = retErr
              /\ pc' = "dispatch"
              /\ input' = InputOf(args, contentBlocks', sys)
    /\ UNCHANGED <<prog, gptVars, args, promptVars, handler, attIdx, invoked,
                   fileReads, resolved, dispatches, fallbackEnv, consumerVars,
                   outputVars>>

\* run, lines 135-182, once the attachment loop has ended: the prompt is the
\* last content block, the configuration is loaded (its error ends run) and
\* the request is built.
BuildInput(cfgErrs, sysReads) ==
    /\ pc = "attach"
    /\ attIdx = Len(Compact(args.attach))
    /\ contentBlocks' = Append(contentBlocks, TextBlock(prompt))
    /\ \E ce \in cfgErrs, sys \in sysReads :
         IF ce # NoError
         THEN /\ retErr' = ce
              /\ pc' = "done"
              /\ input' = input
         ELSE /\ retErr' = retErr
              /\ pc' = "dispatch"
              /\ input' = InputOf(args, contentBlocks', sys)
    /\ UNCHANGED <<prog, gptVars, args, promptVars, handler, attIdx, invoked, fileReads,
                   resolved, dispatches, fallbackEnv, consumerVars, outputVars>>

\* What ConverseStream can return: a stream ("ok") or an error.
DispatchResults == {"ok", "ThrottlingException", "AccessDeniedException"}

\* errors.As(err, &te) with te a *types.ThrottlingException
IsThrottling(r) == r = "ThrottlingException"

\* An opt-in that any non-empty value switches on.
ParseBool_NonEmpty(v) == v # ""

\* strconv.ParseBool, its ok result: true only for the spellings of true
ParseBool(v) == v \in {"1", "t", "T", "TRUE", "true", "True"}

\* The values LLMCLI_FALLBACK_ON_THROTTLE is given.
FallbackEnvs == {"", "1", "true", "0", "yes"}

Dispatch(req, r) == [req |-> req, result |-> r]

\* A fallback that does not look at the model already selected.
FallsBack_AnyModel(env, modelId) == ParseBool(env)

\* line 186: whether the request is sent again to the fallback model
FallsBack(env, modelId) == ParseBool(env) /\ modelId # fallbackModelId

\* run, lines 183-195 up to the second call: the request is sent; on a
\* throttling error the environment is asked whether to fall back.
ConverseStream ==
    /\ pc = "dispatch"
    /\ \E r \in DispatchResults :
         /\ dispatches' = Append(dispatches, Dispatch(input, r))
         /\ IF IsThrottling(r)
            THEN \E env \in FallbackEnvs :
                   /\ fallbackEnv' = env
                   /\ IF FallsBack(env, input.ModelId)
                      THEN /\ input' = [input EXCEPT !.ModelId = fallbackModelId]
                           /\ pc' = "fallback"
                           /\ retErr' = retErr
                      ELSE /\ input' = input
                           /\ pc' = "done"
                           /\ retErr' = r
            ELSE /\ fallbackEnv' = fallbackEnv
                 /\ input' = input
                 /\ pc' = IF r = "ok" THEN "chunks" ELSE "done"
                 /\ retErr' = IF r = "ok" THEN retErr ELSE r
    /\ UNCHANGED <<prog, gptVars, args, promptVars, attachVars, consumerVars, outputVars>>

\* run, lines 190-195: the second call, to the fallback model
ConverseStreamFallback ==
    /\ pc = "fallback"
    /\ \E r \in DispatchResults :
         /\ dispatches' = Append(dispatches, Dispatch(input, r))
         /\ pc' = IF r = "ok" THEN "chunks" ELSE "done"
         /\ retErr' = IF r = "ok" THEN retErr ELSE r
    /\ UNCHANGED <<prog, gptVars, args, promptVars, attachVars, input, fallbackEnv,
                   consumerVars, outputVars>>

----------------------------------------------------------------------------
(* The streaming response consumer: responseConsumer.Chunks and Err. *)

StopReasonEndTurn == "end_turn"

Event(kind, sub, text) == [kind |-> kind, sub |-> sub, text |-> text]

\* The event kinds of the stream.  A ContentBlockDelta carries a text delta,
\* a reasoning delta (text, redacted content, signature) or a tool-use
\* delta; ContentBlockStart is a kind the switch has no case for.
StreamEvents ==
    { Event("ContentBlockDelta", "Text", "Hi"),
      Event("ContentBlockDelta", "ReasoningText", "hm"),
      Event("ContentBlockDelta", "ReasoningRedacted", ""),
      Event("ContentBlockDelta", "ReasoningSignature", ""),
      Event("ContentBlockDelta", "ToolUse", ""),
      Event("ContentBlockStop", "", ""),
      Event("MessageStart", "", ""),
      Event("MessageStop", StopReasonEndTurn, ""),
      Event("MessageStop", "max_tokens", ""),
      Event("Metadata", "u1", ""),
      Event("Metadata", "u2", ""),
      Event("ContentBlockStart", "", "") }

\* What stream.Err() can report once the event channel is closed.
StreamErrs == {NoError, "transport error"}

Chunk(text, isThinking) == [text |-> text, thinking |-> isThinking]

redactedText == "\n[...redacted thinking...]\n"

\* A consumer that loses the reasoning flag of reasoning text.
YieldOf_FlagLost(e) ==
    CASE e.kind = "ContentBlockDelta" /\ e.sub \in {"Text", "ReasoningText"} ->
            <<[text |-> e.text, thinking |-> FALSE]>>
      [] e.kind = "ContentBlockDelta" /\ e.sub = "ReasoningRedacted" ->
            <<[text |-> "\n[...redacted thinking...]\n", thinking |-> TRUE]>>
      [] e.kind = "MessageStop" ->
            <<[text |-> "\n", thinking |-> FALSE]>>
      [] OTHER -> <<>>

\* The chunk the switch of Chunks hands to yield for one event: <<>> if the
\* event's case calls yield not at all.
YieldOf(e) ==
    CASE e.kind = "ContentBlockDelta" /\ e.sub = "Text" ->
            <<Chunk(e.text, FALSE)>>
      [] e.kind = "ContentBlockDelta" /\ e.sub = "ReasoningText" ->
            <<Chunk(e.text, TRUE)>>
      [] e.kind = "ContentBlockDelta" /\ e.sub = "ReasoningRedacted" ->
            <<Chunk(redactedText, TRUE)>>
      [] e.kind = "MessageStop" ->
            <<Chunk("\n", FALSE)>>
      [] OTHER -> <<>>

\* A consumer that keeps the first usage it was given.
UsageAfter_FirstOnly(e, u) == IF e.kind = "Metadata" /\ u = "nil" THEN e.sub ELSE u

\* The usage the consumer holds after the event's case has run.
UsageAfter(e, u) == IF e.kind = "Metadata" THEN e.sub ELSE u

\* A consumer that never records the stop reason.
StopErrOf_Never(e) == "nil"

\* A consumer that takes every stop reason, end_turn too, for an error.
StopErrOf_AnyReason(e) ==
    IF e.kind = "MessageStop" THEN "stop reason: " \o e.sub ELSE "nil"

\* The error the code after a yield that returned true records: only the
\* MessageStop case has code after its yield.
StopErrOf(e) ==
    IF e.kind = "MessageStop" /\ e.sub # StopReasonEndTurn
    THEN "stop reason: " \o e.sub
    ELSE NoError

\* for evt := range stream.Events(): the next event arrives; its case runs
\* up to its yield, or to its end when it has none.
ReadEvent(evts) ==
    /\ pc = "chunks"
    /\ \E e \in evts :
         /\ events' = Append(events, e)
         /\ pending' = YieldOf(e)
         /\ usage' = UsageAfter(e, usage)
         /\ pc' = IF YieldOf(e) = <<>> THEN "chunks" ELSE "yield"
    /\ UNCHANGED <<prog, gptVars, args, promptVars, attachVars, requestVars, chunks, rcErr,
                   closed, streamErr, yieldRet, outputVars, retErr>>

\* termWrite: writes to the terminal only if stdout is one; the answer of
\* stdoutIsTerm is computed once (sync.OnceValue).
TermAnswers(known) == IF known = "unknown" THEN {"yes", "no"} ELSE {known}
TtyAfter(t, isTerm, s) == IF isTerm = "yes" THEN Append(t, s) ELSE t

ansiReset == "ESC[0m"
ansiItalic == "ESC[3m"
separator == "\n\n* * *\n\n"

\* A loop that writes the separator whenever the reasoning flag changes.
WritesOf_OnAnyChange(th, c) ==
    IF th # c.thinking THEN <<"\n\n* * *\n\n", c.text>> ELSE <<c.text>>

\* lines 208-217: what the loop body writes to wr for a chunk, th being the
\* loop's thinking flag before it
WritesOf(th, c) ==
    IF th /\ ~c.thinking THEN <<separator, c.text>> ELSE <<c.text>>

\* The body of run's loop over rc.Chunks() for the chunk handed to it, then
\* (yield returns true: the loop has no break) the code of Chunks after the
\* yield: an abnormal stop reason is recorded and Chunks returns, closing
\* the stream; otherwise the consumer waits for the next event.
LoopBody ==
    /\ pc = "yield"
    /\ LET c == pending[1]
           e == events[Len(events)]
           starts == ~thinking /\ c.thinking
           stops == thinking /\ ~c.thinking
       IN /\ chunks' = Append(chunks, c)
          /\ thinking' = c.thinking
          /\ \E a \in (IF starts \/ stops THEN TermAnswers(stdoutIsTerm)
                       ELSE {stdoutIsTerm}) :
               /\ stdoutIsTerm' = a
               /\ tty' = IF starts THEN TtyAfter(tty, a, ansiItalic)
                         ELSE IF stops THEN TtyAfter(tty, a, ansiReset)
                         ELSE tty
          /\ out' = out \o WritesOf(thinking, c)
          /\ pending' = <<>>
          /\ yieldRet' = TRUE
          /\ rcErr' = StopErrOf(e)
          /\ closed' = (StopErrOf(e) # NoError)
          /\ pc' = IF StopErrOf(e) # NoError THEN "ended" ELSE "chunks"
    /\ UNCHANGED <<prog, gptVars, args, promptVars, attachVars, requestVars, events, usage,
                   streamErr, retErr>>

\* A consumer that does not look at what yield returned.
CallerStops_Ignored ==
    /\ pc = "yield"
    /\ chunks' = Append(chunks, pending[1])
    /\ pending' = <<>>
    /\ yieldRet' = FALSE
    /\ rcErr' = StopErrOf(events[Len(events)])
    /\ closed' = (StopErrOf(events[Len(events)]) # "nil")
    /\ pc' = IF StopErrOf(events[Len(events)]) # "nil" THEN "ended" ELSE "chunks"
    /\ UNCHANGED <<prog, gptVars, args, promptVars, attachVars, requestVars,
                   events, usage, streamErr, outputVars, retErr>>

\* A caller that takes the chunk handed to it and stops pulling: yield
\* returns false, so Chunks returns at once (lines 266-281) and the deferred
\* stream.Close() runs.
CallerStops ==
    /\ pc = "yield"
    /\ chunks' = Append(chunks, pending[1])
    /\ pending' = <<>>
    /\ yieldRet' = FALSE
    /\ closed' = TRUE
    /\ pc' = "stopped"
    /\ UNCHANGED <<prog, gptVars, args, promptVars, attachVars, requestVars,
                   events, rcErr, usage, streamErr, outputVars, retErr>>

\* The event channel is closed: r.err = stream.Err(), and the deferred
\* stream.Close() runs as Chunks returns.
StreamEnd ==
    /\ pc = "chunks"
    /\ \E se \in StreamErrs :
         /\ streamErr' = se
         /\ rcErr' = se
    /\ closed' = TRUE
    /\ pc' = "ended"
    /\ UNCHANGED <<prog, gptVars, args, promptVars, attachVars, requestVars, events, pending,
                   chunks, usage, yieldRet, outputVars, retErr>>

\* What renderAndOpen can return.
Renders == {NoError, "render error"}

\* buf.Len() != 0: something other than empty strings was written
Written(o) == \E i \in 1..Len(o) : o[i] # ""

\* A run that takes back what it has written when the consumer reports an
\* error.
Finish_RetractsOnError(renders) ==
    /\ pc = "ended"
    /\ \E rr \in renders :
         retErr' = IF rcErr # "nil" THEN rcErr
                   ELSE IF args.web /\ Written(out) THEN rr
                   ELSE "nil"
    /\ \E a \in (IF args.budget # 0 THEN TermAnswers(stdoutIsTerm)
                 ELSE {stdoutIsTerm}) :
         /\ stdoutIsTerm' = a
         /\ tty' = IF args.budget # 0 THEN TtyAfter(tty, a, ansiReset) ELSE tty
    /\ out' = IF rcErr # "nil" THEN <<>> ELSE out
    /\ pc' = "done"
    /\ UNCHANGED <<prog, gptVars, args, promptVars, attachVars, requestVars,
                   consumerVars, thinking>>

\* run, lines 219-228, after the loop: rc.Err() is returned if set; with -w
\* the reply is rendered and opened; the deferred termWrite(ansiReset) runs
\* when a thinking budget was given.
Finish(renders) ==
    /\ pc = "ended"
    /\ \E rr \in renders :
         retErr' = IF rcErr # NoError THEN rcErr
                   ELSE IF args.web /\ Written(out) THEN rr
                   ELSE NoError
    /\ \E a \in (IF args.budget # 0 THEN TermAnswers(stdoutIsTerm)
                 ELSE {stdoutIsTerm}) :
         /\ stdoutIsTerm' = a
         /\ tty' = IF args.budget # 0 THEN TtyAfter(tty, a, ansiReset) ELSE tty
    /\ pc' = "done"
    /\ UNCHANGED <<prog, gptVars, args, promptVars, attachVars, requestVars, consumerVars,
                   thinking, out>>

----------------------------------------------------------------------------
(* chatgpt: the program under the name "chatgpt", up to the request. *)

errNoToken == "OPENAI_API_KEY must be set"
errUnsupportedType == "file is of unsupported type"

\* chatgpt, lines 29-32: the token must be set
GptToken(tokens) ==
    /\ pc = "gpt:token"
    /\ \E tok \in tokens :
         /\ retErr' = IF tok = "" THEN errNoToken ELSE retErr
         /\ pc' = IF tok = "" THEN "done" ELSE "gpt:readPrompt"
    /\ UNCHANGED <<prog, gptVars, args, promptVars, attachVars, requestVars,
                   consumerVars, outputVars>>

\* chatgpt, lines 34-37: the prompt is read; its error ends chatgpt
GptReadPrompt(reads) ==
    /\ pc = "gpt:readPrompt"
    /\ \E r \in reads :
         LET res == readPrompt(args.q, r.term, StdinRead(r.bytes, r.err))
         IN /\ stdinData' = StdinDataOf(args.q, r.term, StdinRead(r.bytes, r.err))
            /\ prompt' = res.val
            /\ retErr' = IF res.err # NoError THEN res.err ELSE retErr
            /\ pc' = IF res.err # NoError THEN "done" ELSE "gpt:loadHandlers"
    /\ UNCHANGED <<prog, gptVars, args, attachVars, requestVars, consumerVars,
                   outputVars>>

\* chatgpt, line 54: handler := loadHandlers()
GptLoadHandlers(cfgs) ==
    /\ pc = "gpt:loadHandlers"
    /\ \E cfg \in cfgs : handler' = loadHandlers(cfg)
    /\ pc' = "gpt:attach"
    /\ UNCHANGED <<prog, gptVars, args, promptVars, attIdx, contentBlocks,
                   invoked, fileReads, resolved, requestVars, consumerVars,
                   outputVars, retErr>>

\* The content entries of a chatgpt message.
textBlock(v) == [type |-> "text", text |-> v]
imageBlock(b) == [type |-> "image_url", img |-> b]

\* chatgpt, lines 55-68: one turn of the loop over the attachment names; a
\* block that is neither text nor an image ends chatgpt
GptResolveAttachment(execs, files) ==
    /\ pc = "gpt:attach"
    /\ attIdx < Len(Compact(args.attach))
    /\ \E ex \in execs, rf \in files :
         LET name == Compact(args.attach)[attIdx + 1]
             r == attToBlock(handler, name, ex, rf)
             b == r.res.block
             err == IF r.res.err # NoError THEN r.res.err
                    ELSE IF b.type \in {"Text", "Image"} THEN NoError
                    ELSE errUnsupportedType
         IN /\ attIdx' = attIdx + 1
            /\ invoked' = IF r.argv = NoCommand THEN invoked
                          ELSE Append(invoked, r.argv)
            /\ fileReads' = IF r.read THEN Append(fileReads, name)
                            ELSE fileReads
            /\ resolved' = Append(resolved,
                                  [name |-> name,
                                   file |-> IF r.read THEN rf ELSE NoFile,
                                   res |-> r.res])
            /\ contentBlocks' =
                  IF err # NoError THEN contentBlocks
                  ELSE IF b.type = "Text"
                  THEN Append(contentBlocks, textBlock(b.value))
                  ELSE Append(contentBlocks, imageBlock(b.value))
            /\ retErr' = IF err # NoError THEN err ELSE retErr
            /\ pc' = IF err # NoError THEN "done" ELSE "gpt:attach"
    /\ UNCHANGED <<prog, gptVars, args, promptVars, handler, requestVars,
                   consumerVars, outputVars>>

\* chatgpt, lines 38-48: the trimmed file if there is one, then the date line
gptSystemPromptOf(sys) ==
    LET base == IF sys.path # "" /\ sys.err = NoError
                   /\ Len(TrimSpace(sys.bytes)) # 0
                   /\ utf8Valid(TrimSpace(sys.bytes))
                THEN TrimSpace(sys.bytes)
                ELSE <<>>
    IN TrimSpace(base \o <<"\n", "Today is DATE">>)

\* message.MarshalJSON: a message holding one text block has that text for
\* its content, any other message the list of its blocks
MarshalMessage(role, content) ==
    IF Len(content) = 1 /\ content[1].type = "text"
    THEN [role |-> role, content |-> <<content[1].text>>, plain |-> TRUE]
    ELSE [role |-> role, content |-> content, plain |-> FALSE]

\* lines 71-80: json.Marshal(modelRequest)
MarshalRequest(model, sys, content, t) ==
    [model |-> IF model # "" THEN model ELSE "gpt-4o",
     stream |-> TRUE,
     messages |-> <<MarshalMessage("system", <<textBlock(gptSystemPromptOf(sys))>>),
                    MarshalMessage("user", content)>>,
     temperature |-> t]

\* chatgpt, lines 69-83, once the attachment loop has ended: the prompt is
\* the last content entry and the request is marshalled (every image entry
\* was sniffed as an image before, so marshalling does not fail).
GptBuildRequest(gptModels, sysReads) ==
    /\ pc = "gpt:attach"
    /\ attIdx = Len(Compact(args.attach))
    /\ contentBlocks' = Append(contentBlocks, textBlock(prompt))
    /\ \E m \in gptModels, sys \in sysReads :
         payload' = <<MarshalRequest(m, sys, contentBlocks', args.t)>>
    /\ pc' = "gpt:attempt"
    /\ UNCHANGED <<prog, args, promptVars, handler, attIdx, invoked, fileReads,
                   resolved, requestVars, consumerVars, outputVars, retErr,
                   attempts, sleeps, scanned, wbuf>>

----------------------------------------------------------------------------
(* chatgpt: the request with its retries, and the response. *)

\* What http.DefaultClient.Do gives: an error, or a response with its status
\* and content type.
HttpResult(e, status, ct) == [err |-> e, status |-> status, ct |-> ct]

NoStatusError == [kind |-> "nil", code |-> 0]
\* &unexpectedStatusError{code: resp.StatusCode}
unexpectedStatusError(code) == [kind |-> "status", code |-> code]
transportError == [kind |-> "transport", code |-> 0]

\* unexpectedStatusError.Error, and the text of a transport error
ErrorString(e) ==
    IF e.kind = "status" THEN "unexpected status: " \o ToString(e.code)
    ELSE "Post: connection refused"

\* fn, lines 88-115: the response for status 200, an error for everything
\* else
fn(h) ==
    IF h.err # NoError THEN [ok |-> FALSE, ct |-> "", err |-> transportError]
    ELSE IF h.status = 200 THEN [ok |-> TRUE, ct |-> h.ct, err |-> NoStatusError]
    ELSE [ok |-> FALSE, ct |-> "", err |-> unexpectedStatusError(h.status)]

\* retry.Config{MaxAttempts: 3, ...}
MaxAttempts == 3

\* A retry on any status the server answers with.
RetryOn_AnyStatus(e) == e.kind = "status"

\* RetryOn, lines 116-119: only 429 Too Many Requests
RetryOn(e) == e.kind = "status" /\ e.code = 429

\* The delay function of line 120, in seconds
DelayFunc(i) == i

\* retry.FuncVal after the n-th call of fn failed with e: whether fn is
\* called again, and after which delay.
FuncVal(n, e) ==
    [again |-> n < MaxAttempts /\ RetryOn(e), delay |-> DelayFunc(n)]

\* chatgpt, lines 88-124: one call of fn by retry.FuncVal, which sends the
\* marshalled request from its first byte (bytes.NewReader(payload))
GptAttempt(https) ==
    /\ pc = "gpt:attempt"
    /\ \E h \in https :
         LET r == fn(h)
             n == Len(attempts) + 1
             step == FuncVal(n, r.err)
         IN /\ attempts' = Append(attempts, [body |-> payload, res |-> r])
            /\ IF r.ok
               THEN /\ pc' = "gpt:response"
                    /\ UNCHANGED <<sleeps, retErr>>
               ELSE IF step.again
               THEN /\ sleeps' = Append(sleeps, step.delay)
                    /\ pc' = "gpt:attempt"
                    /\ UNCHANGED retErr
               ELSE /\ retErr' = ErrorString(r.err)
                    /\ pc' = "done"
                    /\ UNCHANGED sleeps
    /\ UNCHANGED <<prog, args, promptVars, attachVars, requestVars,
                   consumerVars, outputVars, payload, scanned, wbuf>>

contentTypeStream == "text/event-stream; charset=utf-8"
contentTypeJson == "application/json"

\* A decoded chatgptResponse: whether decoding failed, the number of choices,
\* the content and the finish reason of the first one.
ResponseBody(bad, n, content, reason) ==
    [bad |-> bad, n |-> n, content |-> content, reason |-> reason]

\* chatgpt, lines 125-143: a stream goes to streamResponse; a JSON response
\* is printed whole
GptResponse(bodies) ==
    /\ pc = "gpt:response"
    /\ LET ct == attempts[Len(attempts)].res.ct
       IN IF ct = contentTypeStream
          THEN /\ pc' = "gpt:stream"
               /\ UNCHANGED <<out, retErr>>
          ELSE IF ct # contentTypeJson
          THEN /\ pc' = "done"
               /\ retErr' = "unexpected content-type"
               /\ out' = out
          ELSE \E b \in bodies :
                 /\ pc' = "done"
                 /\ out' = IF b.bad \/ b.n # 1 THEN out
                           ELSE Append(out, b.content \o "\n")
                 /\ retErr' = IF b.bad THEN "invalid character"
                              ELSE IF b.n # 1
                              THEN "response returned a number of choices instead of expected 1"
                              ELSE IF b.reason # "stop"
                              THEN "stop reason: " \o b.reason
                              ELSE NoError
    /\ UNCHANGED <<prog, gptVars, args, promptVars, attachVars, requestVars,
                   consumerVars, thinking, tty, stdoutIsTerm>>

----------------------------------------------------------------------------
(* streamResponse: the server-sent events of a chatgpt reply. *)

\* A line of the response: kind "other" has no "data: " prefix, "done" is
\* "data: [DONE]", "bad" is data that is not JSON, "skip" is a JSON object of
\* another type or without choices, "chunk" has a content and a finish
\* reason ("" for null).
Line(kind, content, reason) ==
    [kind |-> kind, content |-> content, reason |-> reason]

StreamLines ==
    { Line("other", "", ""), Line("done", "", ""), Line("bad", "", ""),
      Line("skip", "", ""), Line("chunk", "Hi", ""), Line("chunk", "", "stop"),
      Line("chunk", "!", "length") }

\* What sc.Err() can report once Scan has returned false.
ScanErrs == {NoError, "unexpected EOF"}

\* bufio.Writer.WriteString on the 40-byte writer: the text is buffered, and
\* goes out with everything buffered before it when the buffer fills up
\* (full says it did).
WriteString(o, buf, t, full) ==
    IF full THEN [out |-> o \o buf \o <<t>>, buf |-> <<>>]
    ELSE [out |-> o, buf |-> Append(buf, t)]

\* w.Flush(), also the deferred one
Flush(o, buf) == [out |-> o \o buf, buf |-> <<>>]

\* The error, if any, that ends streamResponse at a line.
LineErrOf(l) ==
    IF l.kind = "bad" THEN "invalid character"
    ELSE IF l.kind = "chunk" /\ l.reason \notin {"", "stop"}
    THEN "stop reason: " \o l.reason
    ELSE NoError

\* streamResponse, lines 161-183: one turn of the loop over the lines
GptScan(lines) ==
    /\ pc = "gpt:stream"
    /\ \E l \in lines, full \in BOOLEAN :
         LET text == IF l.kind = "done" THEN "\n" ELSE l.content
             w == IF l.kind \in {"done", "chunk"}
                  THEN WriteString(out, wbuf, text, full)
                  ELSE [out |-> out, buf |-> wbuf]
             returns == l.kind = "done" \/ LineErrOf(l) # NoError
             f == IF returns THEN Flush(w.out, w.buf) ELSE w
         IN /\ scanned' = Append(scanned, l)
            /\ out' = f.out
            /\ wbuf' = f.buf
            /\ retErr' = IF returns THEN LineErrOf(l) ELSE retErr
            /\ pc' = IF returns THEN "done" ELSE "gpt:stream"
    /\ UNCHANGED <<prog, args, promptVars, attachVars, requestVars,
                   consumerVars, thinking, tty, stdoutIsTerm, payload, attempts,
                   sleeps>>

\* streamResponse, lines 184-187: the scanner has no more lines
GptScanEnd(errs) ==
    /\ pc = "gpt:stream"
    /\ \E e \in errs : retErr' = e
    /\ out' = Flush(out, wbuf).out
    /\ wbuf' = Flush(out, wbuf).buf
    /\ pc' = "done"
    /\ UNCHANGED <<prog, args, promptVars, attachVars, requestVars,
                   consumerVars, thinking, tty, stdoutIsTerm, payload, attempts,
                   sleeps, scanned>>

----------------------------------------------------------------------------
(* The whole run. *)

RunArgs(model, q, attach, t, budget, web) ==
    [model |-> model, q |-> q, attach |-> attach, t |-> t, budget |-> budget,
     web |-> web]

\* The sequences over S of length at most n
RECURSIVE SeqsUpTo(_, _)
SeqsUpTo(S, n) ==
    IF n = 0 THEN {<<>>}
    ELSE LET shorter == SeqsUpTo(S, n - 1)
         IN shorter \cup {Append(s, x) : s \in shorter, x \in S}

\* The values of LLMCLI_MODEL
Models == {"", "haiku", fallbackModelId, claude37ModelId}

\* main, lines 75-91: -b is accepted only for a Claude 3.7 model, with a
\* budget of 1024 to 2^17 - 1 tokens
minBudget == 1024
maxBudget == 131071
Budgets == {minBudget, 4000, maxBudget}
BudgetsFor(m) == IF ContainsClaude37(m) THEN {0} \cup Budgets ELSE {0}

Temperatures == {NoTemp, "0.5"}

RunQueries == {<<>>, <<"q">>}
RunNames == {<<"https://", "x">>, <<"report", ".pdf">>}

RunReads ==
    {[term |-> FALSE, bytes |-> <<>>, err |-> NoError],
     [term |-> FALSE, bytes |-> <<"a">>, err |-> NoError],
     [term |-> TRUE, bytes |-> <<"a">>, err |-> NoError]}
RunHandlerCfgs ==
    {[ok |-> FALSE, rules |-> <<>>],
     [ok |-> TRUE, rules |-> <<Rule(<<"https://">>, <<<<"url-to-text">>, ARG>>)>>]}
RunExecs == {ExecResult(NoError, <<"a">>), ExecResult(errExec, <<>>)}
RunFiles ==
    {FileRead(errFileRead, <<>>, FALSE),
     FileRead(NoError, <<"%PDF", "0xFF">>, FALSE),
     FileRead(NoError, <<"a">>, FALSE)}
CfgErrs == {NoError, errConfig}
RunSysReads ==
    {SysRead("", NoError, <<>>),
     SysRead("system-prompt.txt", NoError, <<" ", "s", "\n">>)}
RunStreamEvents ==
    { Event("ContentBlockDelta", "Text", "Hi"),
      Event("MessageStop", "max_tokens", "") }

InitWith(a) ==
    /\ pc = "readPrompt"
    /\ args = a
    /\ stdinData = StdinRead(<<>>, NoError)
    /\ prompt = <<>>
    /\ handler = NoHandlers
    /\ attIdx = 0
    /\ contentBlocks = <<>>
    /\ invoked = <<>>
    /\ fileReads = <<>>
    /\ resolved = <<>>
    /\ input = NoInput
    /\ dispatches = <<>>
    /\ fallbackEnv = "unread"
    /\ events = <<>>
    /\ pending = <<>>
    /\ chunks = <<>>
    /\ rcErr = NoError
    /\ usage = "nil"
    /\ closed = FALSE
    /\ streamErr = "unread"
    /\ yieldRet = TRUE
    /\ thinking = FALSE
    /\ out = <<>>
    /\ tty = <<>>
    /\ stdoutIsTerm = "unknown"
    /\ retErr = "running"
    /\ prog = "llmcli"
    /\ GptIdle

Init ==
    \E m \in Models, q \in RunQueries, t \in Temperatures :
      \E b \in BudgetsFor(m), attach \in SeqsUpTo(RunNames, MaxAttach) :
        InitWith(RunArgs(m, q, attach, t, b, FALSE))

Next ==
    \/ ReadPrompt(RunReads)
    \/ LoadHandlers(RunHandlerCfgs)
    \/ ResolveAttachment(RunExecs, RunFiles)
    \/ BuildInput(CfgErrs, RunSysReads)
    \/ ConverseStream
    \/ ConverseStreamFallback
    \/ (Len(events) < MaxRunEvents /\ ReadEvent(RunStreamEvents))
    \/ LoopBody
    \/ StreamEnd
    \/ Finish(Renders)

Spec == Init /\ [][Next]_vars

----------------------------------------------------------------------------
(* The response consumer on its own: from rc := newResponseConsumer(out),   *)
(* line 201, with every kind of event.                                      *)

ChunksArgs ==
    {RunArgs(claude37ModelId, <<"q">>, <<>>, NoTemp, b, w) :
        b \in {0, minBudget}, w \in BOOLEAN}

ChunksInit ==
    \E a \in ChunksArgs :
      LET blocks == <<TextBlock(<<"q">>)>>
          req == InputOf(a, blocks, SysRead("", NoError, <<>>))
      IN /\ pc = "chunks"
         /\ args = a
         /\ stdinData = StdinRead(<<>>, NoError)
         /\ prompt = <<"q">>
         /\ handler = NoHandlers
         /\ attIdx = 0
         /\ contentBlocks = blocks
         /\ invoked = <<>>
         /\ fileReads = <<>>
         /\ resolved = <<>>
         /\ input = req
         /\ dispatches = <<Dispatch(req, "ok")>>
         /\ fallbackEnv = "unread"
         /\ events = <<>>
         /\ pending = <<>>
         /\ chunks = <<>>
         /\ rcErr = NoError
         /\ usage = "nil"
         /\ closed = FALSE
         /\ streamErr = "unread"
         /\ yieldRet = TRUE
         /\ thinking = FALSE
         /\ out = <<>>
         /\ tty = <<>>
         /\ stdoutIsTerm = "unknown"
         /\ retErr = "running"
         /\ prog = "llmcli"
         /\ GptIdle

ChunksNext ==
    \/ (Len(events) < MaxEvents /\ ReadEvent(StreamEvents))
    \/ LoopBody
    \/ StreamEnd
    \/ Finish(Renders)

SpecChunks == ChunksInit /\ [][ChunksNext]_vars

----------------------------------------------------------------------------
(* The response consumer with a caller that may stop pulling.               *)

CallerNext ==
    \/ (Len(events) < MaxEvents /\ ReadEvent(StreamEvents))
    \/ LoopBody
    \/ CallerStops
    \/ StreamEnd
    \/ Finish(Renders)

SpecCaller == ChunksInit /\ [][CallerNext]_vars

----------------------------------------------------------------------------
(* The output loop of run over longer streams of the events that give a     *)
(* chunk.                                                                   *)

\* The longest stream of chunk events.
MaxChunks == 4

ChunkEvents ==
    { Event("ContentBlockDelta", "Text", "Hi"),
      Event("ContentBlockDelta", "ReasoningText", "hm"),
      Event("ContentBlockDelta", "ReasoningRedacted", ""),
      Event("MessageStop", StopReasonEndTurn, "") }

RenderNext ==
    \/ (Len(events) < MaxChunks /\ ReadEvent(ChunkEvents))
    \/ LoopBody
    \/ StreamEnd
    \/ Finish(Renders)

SpecRender == ChunksInit /\ [][RenderNext]_vars

----------------------------------------------------------------------------
(* readPrompt on its own: every query with every stdin.                     *)

\* The longest stdin.
MaxStdin == 3

StdinBytes == {"a", " ", "\n", "0xFF"}
PromptQueries == {<<>>, <<"q">>, <<" ">>}

AllReads ==
    {[term |-> tm, bytes |-> b, err |-> e] :
        tm \in BOOLEAN, b \in SeqsUpTo(StdinBytes, MaxStdin),
        e \in {NoError, errStdinRead}}

PromptInit ==
    \E q \in PromptQueries : InitWith(RunArgs("", q, <<>>, NoTemp, 0, FALSE))

PromptNext == ReadPrompt(AllReads)

SpecPrompt == PromptInit /\ [][PromptNext]_vars

----------------------------------------------------------------------------
(* attToBlock on its own: one attachment name against every rule list.      *)

\* The longest rule list of att-handlers.json.
MaxRules == 2

AttRules ==
    { Rule(<<>>, <<<<"cat">>>>),
      Rule(<<"h">>, <<>>),
      Rule(<<"h">>, <<<<"fetch">>, ARG>>),
      Rule(<<"h", "t">>, <<<<"get">>, <<"-o">>>>),
      Rule(<<"h">>, <<<<"curl">>, ARG, <<"-x">>, ARG>>),
      Rule(<<"f">>, <<<<"open">>>>),
      Rule(<<"h", "t">>, <<ARG, <<"-v">>>>) }

AttNames == {<<"h", "t", "x">>, <<"h", "x">>, <<"f">>, <<"x", ".txt">>}

AttHandlerCfgs ==
    {[ok |-> o, rules |-> r] : o \in BOOLEAN, r \in SeqsUpTo(AttRules, MaxRules)}

AttExecs ==
    {ExecResult(NoError, <<>>), ExecResult(NoError, <<"a">>),
     ExecResult(NoError, <<"0xFF">>), ExecResult(errExec, <<>>)}

AttFiles ==
    {FileRead(errFileRead, <<>>, FALSE), FileRead(NoError, <<"a">>, FALSE),
     FileRead(NoError, <<"PNG">>, FALSE)}

\* The state of run at line 128, before the first turn of the loop.
AttInit ==
    \E name \in AttNames, cfg \in AttHandlerCfgs :
      /\ pc = "attach"
      /\ args = RunArgs("", <<"q">>, <<name>>, NoTemp, 0, FALSE)
      /\ stdinData = StdinRead(<<>>, NoError)
      /\ prompt = <<"q">>
      /\ handler = loadHandlers(cfg)
      /\ attIdx = 0
      /\ contentBlocks = <<>>
      /\ invoked = <<>>
      /\ fileReads = <<>>
      /\ resolved = <<>>
      /\ input = NoInput
      /\ dispatches = <<>>
      /\ fallbackEnv = "unread"
      /\ events = <<>>
      /\ pending = <<>>
      /\ chunks = <<>>
      /\ rcErr = NoError
      /\ usage = "nil"
      /\ closed = FALSE
      /\ streamErr = "unread"
      /\ yieldRet = TRUE
      /\ thinking = FALSE
      /\ out = <<>>
      /\ tty = <<>>
      /\ stdoutIsTerm = "unknown"
      /\ retErr = "running"
      /\ prog = "llmcli"
      /\ GptIdle

AttNext == ResolveAttachment(AttExecs, AttFiles)

SpecAtt == AttInit /\ [][AttNext]_vars

----------------------------------------------------------------------------
(* contentBlockFromFile on its own: one local file, no handlers loaded.     *)

FileNames ==
    {<<"x", e>> : e \in ExtTokens} \cup {<<"x">>, <<"Makefile">>}

FileContents ==
    { <<>>, <<"a">>, <<"a", "\n">>, <<"0xFF">>, <<"a", "0xFF", "\n">>,
      <<"a", "0x00">>, <<"PNG">>, <<"JPEG", "a">>, <<"GIF">>, <<"WEBP">>,
      <<"BMP">>, <<"%PDF", "a">> }

AllFiles ==
    {FileRead(errFileRead, <<>>, FALSE)}
    \cup {FileRead(NoError, b, big) : b \in FileContents, big \in BOOLEAN}

\* The state of run at line 128 with no handlers loaded.
FileInit ==
    \E name \in FileNames :
      /\ pc = "attach"
      /\ args = RunArgs("", <<"q">>, <<name>>, NoTemp, 0, FALSE)
      /\ stdinData = StdinRead(<<>>, NoError)
      /\ prompt = <<"q">>
      /\ handler = NoHandlers
      /\ attIdx = 0
      /\ contentBlocks = <<>>
      /\ invoked = <<>>
      /\ fileReads = <<>>
      /\ resolved = <<>>
      /\ input = NoInput
      /\ dispatches = <<>>
      /\ fallbackEnv = "unread"
      /\ events = <<>>
      /\ pending = <<>>
      /\ chunks = <<>>
      /\ rcErr = NoError
      /\ usage = "nil"
      /\ closed = FALSE
      /\ streamErr = "unread"
      /\ yieldRet = TRUE
      /\ thinking = FALSE
      /\ out = <<>>
      /\ tty = <<>>
      /\ stdoutIsTerm = "unknown"
      /\ retErr = "running"
      /\ prog = "llmcli"
      /\ GptIdle

FileNext == ResolveAttachment({ExecResult(NoError, <<>>)}, AllFiles)

SpecFile == FileInit /\ [][FileNext]_vars

----------------------------------------------------------------------------
(* The program under the name "chatgpt".                                    *)

\* The most lines of a streamed reply.
MaxLines == 2

Tokens == {"", "sk-token"}
GptModels == {"", "gpt-4o-mini"}
GptNames == {<<"https://", "x">>, <<"notes", ".txt">>}
GptFiles ==
    {FileRead(errFileRead, <<>>, FALSE), FileRead(NoError, <<"a">>, FALSE),
     FileRead(NoError, <<"PNG">>, FALSE), FileRead(NoError, <<"0xFF">>, FALSE)}

Https ==
    { HttpResult("connection refused", 0, ""),
      HttpResult(NoError, 200, contentTypeStream),
      HttpResult(NoError, 200, contentTypeJson),
      HttpResult(NoError, 200, "text/html"),
      HttpResult(NoError, 429, contentTypeJson),
      HttpResult(NoError, 500, "") }

ResponseBodies ==
    { ResponseBody(TRUE, 0, "", ""), ResponseBody(FALSE, 0, "", ""),
      ResponseBody(FALSE, 1, "Hi", "stop"), ResponseBody(FALSE, 1, "H", "length") }

\* main, line 117: under the name "chatgpt" run hands over to chatgpt
GptInitWith(a) ==
    /\ prog = "chatgpt"
    /\ pc = "gpt:token"
    /\ args = a
    /\ stdinData = StdinRead(<<>>, NoError)
    /\ prompt = <<>>
    /\ handler = NoHandlers
    /\ attIdx = 0
    /\ contentBlocks = <<>>
    /\ invoked = <<>>
    /\ fileReads = <<>>
    /\ resolved = <<>>
    /\ input = NoInput
    /\ dispatches = <<>>
    /\ fallbackEnv = "unread"
    /\ events = <<>>
    /\ pending = <<>>
    /\ chunks = <<>>
    /\ rcErr = NoError
    /\ usage = "nil"
    /\ closed = FALSE
    /\ streamErr = "unread"
    /\ yieldRet = TRUE
    /\ thinking = FALSE
    /\ out = <<>>
    /\ tty = <<>>
    /\ stdoutIsTerm = "unknown"
    /\ retErr = "running"
    /\ GptIdle

GptInit ==
    \E q \in RunQueries, t \in Temperatures, attach \in SeqsUpTo(GptNames, 1) :
      GptInitWith(RunArgs("", q, attach, t, 0, FALSE))

GptNext ==
    \/ GptToken(Tokens)
    \/ GptReadPrompt(RunReads)
    \/ GptLoadHandlers(RunHandlerCfgs)
    \/ GptResolveAttachment(RunExecs, GptFiles)
    \/ GptBuildRequest(GptModels, RunSysReads)
    \/ GptAttempt(Https)
    \/ GptResponse(ResponseBodies)
    \/ (Len(scanned) < MaxLines /\ GptScan(StreamLines))
    \/ GptScanEnd(ScanErrs)

SpecChatgpt == GptInit /\ [][GptNext]_vars

----------------------------------------------------------------------------
(* Both programs, with up to MaxNames attachments.                          *)

\* The most -f flags when both programs are run.
MaxNames == 4

ProgramsInit ==
    \E q \in RunQueries, attach \in SeqsUpTo(GptNames, MaxNames) :
      \/ InitWith(RunArgs("", q, attach, NoTemp, 0, FALSE))
      \/ GptInitWith(RunArgs("", q, attach, NoTemp, 0, FALSE))

ProgramsNext ==
    \/ ReadPrompt(RunReads)
    \/ LoadHandlers(RunHandlerCfgs)
    \/ ResolveAttachment(RunExecs, GptFiles)
    \/ BuildInput(CfgErrs, {SysRead("", NoError, <<>>)})
    \/ ConverseStream
    \/ ConverseStreamFallback
    \/ GptToken(Tokens)
    \/ GptReadPrompt(RunReads)
    \/ GptLoadHandlers(RunHandlerCfgs)
    \/ GptResolveAttachment(RunExecs, GptFiles)
    \/ GptBuildRequest({""}, {SysRead("", NoError, <<>>)})
    \/ GptAttempt(Https)

SpecPrograms == ProgramsInit /\ [][ProgramsNext]_vars

----------------------------------------------------------------------------
(* The output of both programs: run from line 201, chatgpt from line 127.   *)

\* chatgpt at line 127: the request was answered with a stream.
StreamInit ==
    LET content == <<textBlock(<<"q">>)>>
        body == <<MarshalRequest("", SysRead("", NoError, <<>>), content, NoTemp)>>
    IN /\ prog = "chatgpt"
       /\ pc = "gpt:stream"
       /\ args = RunArgs("", <<"q">>, <<>>, NoTemp, 0, FALSE)
       /\ stdinData = StdinRead(<<>>, NoError)
       /\ prompt = <<"q">>
       /\ handler = NoHandlers
       /\ attIdx = 0
       /\ contentBlocks = content
       /\ invoked = <<>>
       /\ fileReads = <<>>
       /\ resolved = <<>>
       /\ input = NoInput
       /\ dispatches = <<>>
       /\ fallbackEnv = "unread"
       /\ events = <<>>
       /\ pending = <<>>
       /\ chunks = <<>>
       /\ rcErr = NoError
       /\ usage = "nil"
       /\ closed = FALSE
       /\ streamErr = "unread"
       /\ yieldRet = TRUE
       /\ thinking = FALSE
       /\ out = <<>>
       /\ tty = <<>>
       /\ stdoutIsTerm = "unknown"
       /\ retErr = "running"
       /\ payload = body
       /\ attempts = <<[body |-> body,
                        res |-> fn(HttpResult(NoError, 200, contentTypeStream))]>>
       /\ sleeps = <<>>
       /\ scanned = <<>>
       /\ wbuf = <<>>

OutputInit == ChunksInit \/ StreamInit

OutputNext ==
    \/ (Len(events) < MaxEvents /\ ReadEvent(StreamEvents))
    \/ LoopBody
    \/ StreamEnd
    \/ Finish(Renders)
    \/ (Len(scanned) < MaxLines /\ GptScan(StreamLines))
    \/ GptScanEnd(ScanErrs)

SpecOutput == OutputInit /\ [][OutputNext]_vars

----------------------------------------------------------------------------
(* The claims about the response consumer, checked under SpecChunks. *)

Last(s) == s[Len(s)]

\* The chunks handed to the caller so far, the one it is being handed now
\* included.
Handed == chunks \o pending

IsDelta(e) == e.kind = "ContentBlockDelta"
IsAbnormalStop(e) == e.kind = "MessageStop" /\ e.sub # StopReasonEndTurn
Ended == pc \in {"ended", "done"}

\* C1 as stated: every ContentBlockDelta gives one chunk with the delta's
\* text and its reasoning flag, every MessageStop one "\n" chunk, every other
\* event none.
StatedChunksOf(e) ==
    IF IsDelta(e)
    THEN <<Chunk(e.text,
                 e.sub \in {"ReasoningText", "ReasoningRedacted",
                            "ReasoningSignature"})>>
    ELSE IF e.kind = "MessageStop" THEN <<Chunk("\n", FALSE)>>
    ELSE <<>>

RECURSIVE StatedProjection(_)
StatedProjection(evs) ==
    IF evs = <<>> THEN <<>>
    ELSE StatedChunksOf(Head(evs)) \o StatedProjection(Tail(evs))

\* C1 as stated, as a formula: the chunks handed to the caller are the
\* projection of the events read in which every delta gives a chunk.
C1_AsStated == Handed = StatedProjection(events)

\* C1 as amended: only a delta that carries text gives a chunk with that text
\* (reasoning or not); a redacted reasoning delta gives one chunk with a fixed
\* placeholder text, flagged as reasoning; every other delta (reasoning
\* signature, tool use) gives none.
AmendedChunksOf(e) ==
    IF IsDelta(e) /\ e.sub = "Text" THEN <<[text |-> e.text, thinking |-> FALSE]>>
    ELSE IF IsDelta(e) /\ e.sub = "ReasoningText"
    THEN <<[text |-> e.text, thinking |-> TRUE]>>
    ELSE IF IsDelta(e) /\ e.sub = "ReasoningRedacted"
    THEN <<[text |-> "\n[...redacted thinking...]\n", thinking |-> TRUE]>>
    ELSE IF e.kind = "MessageStop" THEN <<[text |-> "\n", thinking |-> FALSE]>>
    ELSE <<>>

RECURSIVE AmendedProjection(_)
AmendedProjection(evs) ==
    IF evs = <<>> THEN <<>>
    ELSE AmendedChunksOf(Head(evs)) \o AmendedProjection(Tail(evs))

\* An event whose case neither yields nor returns.
IsSilent(e) == AmendedChunksOf(e) = <<>>

\* C1 (amended): at every moment the chunks handed to the caller are the
\* in-order projection of the events read so far (nothing reordered, merged,
\* duplicated or dropped), and reading an event that gives no chunk leaves
\* the consumer waiting for the next event.
C1_ChunksAreProjection ==
    /\ [](Handed = AmendedProjection(events))
    /\ [][(events' # events /\ IsSilent(Last(events'))) => pc' = "chunks"]_vars

\* C1 witness: a finished stream with reasoning text, a redacted delta, a
\* signature delta and answer text, in that order.
C1_Witness ==
    /\ pc = "done"
    /\ Len(events) = 3
    /\ events[1].sub = "ReasoningRedacted"
    /\ events[2].sub = "ReasoningSignature"
    /\ events[3].sub = "Text"
    /\ Len(chunks) = 2

\* C2: the "\n" chunk of a MessageStop is handed to the caller while Err() is
\* still nil; an abnormal stop reason is recorded only after that, it is the
\* last event read and its "\n" the last chunk, and Err() names the reason
\* once the sequence has ended.
C2_NewlineBeforeStopError ==
    /\ (pc = "yield" /\ Last(events).kind = "MessageStop") =>
          (rcErr = NoError /\ pending = <<Chunk("\n", FALSE)>>)
    /\ \A i \in 1..Len(events) :
          IsAbnormalStop(events[i]) =>
             /\ i = Len(events)
             /\ Last(Handed) = Chunk("\n", FALSE)
             /\ (pc # "yield") =>
                   (Ended /\ rcErr = "stop reason: " \o events[i].sub)

C2_Witness ==
    /\ pc = "done"
    /\ Len(events) = 2
    /\ IsAbnormalStop(events[2])
    /\ chunks = <<Chunk("Hi", FALSE), Chunk("\n", FALSE)>>
    /\ rcErr = "stop reason: max_tokens"

\* C3: once the sequence has ended, Err() is the recorded abnormal stop error
\* if one was recorded (stream.Err() is then never read), and otherwise what
\* stream.Err() returned, nil included.
C3_TerminalError ==
    Ended =>
       IF \E i \in 1..Len(events) : IsAbnormalStop(events[i])
       THEN /\ rcErr = "stop reason: " \o Last(events).sub
            /\ streamErr = "unread"
       ELSE /\ streamErr \in StreamErrs
            /\ rcErr = streamErr

C3_Witness ==
    /\ pc = "done"
    /\ events # <<>>
    /\ Last(events) = Event("MessageStop", StopReasonEndTurn, "")
    /\ streamErr = NoError
    /\ rcErr = NoError
    /\ retErr = NoError

----------------------------------------------------------------------------
(* The claims about the dispatch and the request, checked under Spec. *)

\* The spellings of true that switch LLMCLI_FALLBACK_ON_THROTTLE on.
OptedIn == fallbackEnv \in {"1", "t", "T", "TRUE", "true", "True"}

\* C4: at most two dispatches; a second one only after a throttled first
\* one, with the opt-in on and another model than the fallback model selected;
\* it sends the same request to the fallback model, and its error is what run
\* returns.
C4_SingleShotFallback ==
    /\ Len(dispatches) <= 2
    /\ Len(dispatches) = 2 =>
          /\ dispatches[1].result = "ThrottlingException"
          /\ OptedIn
          /\ dispatches[1].req.ModelId # fallbackModelId
          /\ dispatches[2].req =
                [dispatches[1].req EXCEPT !.ModelId = fallbackModelId]
          /\ (dispatches[2].result # "ok") =>
                (pc = "done" /\ retErr = dispatches[2].result)

C4_Witness ==
    /\ Len(dispatches) = 2
    /\ dispatches[2].result = "ThrottlingException"
    /\ dispatches[2].req.ModelId = "anthropic.claude-3-sonnet-20240229-v1:0"
    /\ retErr = "ThrottlingException"

\* C5: a first dispatch that fails with anything but a throttling error, or
\* with a throttling error while the opt-in is off or the fallback model is
\* the one selected, ends run with that error: no second dispatch, no event
\* read, nothing written.
C5_OnlyThrottlingFallsBack ==
    (/\ Len(dispatches) >= 1
     /\ dispatches[1].result # "ok"
     /\ \/ dispatches[1].result # "ThrottlingException"
        \/ ~OptedIn
        \/ dispatches[1].req.ModelId = fallbackModelId)
    => /\ Len(dispatches) = 1
       /\ pc = "done"
       /\ retErr = dispatches[1].result
       /\ events = <<>> /\ chunks = <<>> /\ streamErr = "unread"
       /\ out = <<>> /\ tty = <<>>

C5_Witness ==
    /\ Len(dispatches) = 1
    /\ dispatches[1].result = "ThrottlingException"
    /\ fallbackEnv = "yes"
    /\ dispatches[1].req.ModelId # fallbackModelId
    /\ pc = "done"
    /\ retErr = "ThrottlingException"

\* C6: no request sent carries both a temperature and the thinking field.
C6_TemperatureExcludesThinking ==
    \A i \in 1..Len(dispatches) :
       ~(/\ dispatches[i].req.InferenceConfig.Temperature # NoTemp
         /\ dispatches[i].req.Additional # 0)

\* C7: with a thinking budget every request sent has its maximum output
\* token count set, to at least twice the budget.
C7_MaxTokensTwiceBudget ==
    \A i \in 1..Len(dispatches) :
       args.budget # 0 =>
          /\ dispatches[i].req.InferenceConfig.set
          /\ dispatches[i].req.InferenceConfig.MaxTokens >= 2 * args.budget

HasDocument(blocks) == \E i \in 1..Len(blocks) : blocks[i].type = "Document"

\* C8: the first request goes to the fallback model when the default model
\* is selected and a content block is a Document, and to the selected model
\* when no content block is a Document.
C8_DocumentDowngradesModel ==
    Len(dispatches) >= 1 =>
       LET req == dispatches[1].req
           selected == IF args.model = "" THEN defaultModelId
                       ELSE IF args.model = "haiku" THEN haikuModelId
                       ELSE args.model
       IN /\ (HasDocument(req.Content) /\ selected = defaultModelId) =>
                req.ModelId = fallbackModelId
          /\ ~HasDocument(req.Content) => req.ModelId = selected

----------------------------------------------------------------------------
(* The claim about readPrompt, checked under SpecPrompt. *)

AllSpace(b) == \A i \in 1..Len(b) : b[i] \in {" ", "\n"}
ValidText(b) == \A i \in 1..Len(b) : b[i] # "0xFF"
PromptRead == pc # "readPrompt" /\ stdinData.err = NoError
PromptFails(e) == pc = "done" /\ retErr = e /\ prompt = <<>>
PromptIs(p) == pc = "loadHandlers" /\ retErr = "running" /\ prompt = p

\* C9 as stated: an empty query with a non-empty stdin gives the stdin
\* verbatim.
C9_AsStated ==
    (PromptRead /\ args.q = <<>> /\ stdinData.bytes # <<>>
       /\ ValidText(stdinData.bytes))
    => PromptIs(stdinData.bytes)

\* C9 (amended): with q the query and b the bytes read from stdin,
\*   b not valid text                  -> the encoding error
\*   q empty, b empty or all whitespace -> the empty-prompt error
\*   q empty, b otherwise              -> b verbatim
\*   q not empty, b empty or all whitespace -> q alone
\*   q not empty, b otherwise -> "<document>\n" b "</document>\n" "\n" q
C9_PromptCases ==
    PromptRead =>
       LET q == args.q
           b == stdinData.bytes
       IN CASE ~ValidText(b) -> PromptFails(errNotUtf8)
            [] ValidText(b) /\ q = <<>> /\ AllSpace(b) ->
                  PromptFails(errEmptyPrompt)
            [] ValidText(b) /\ q = <<>> /\ ~AllSpace(b) -> PromptIs(b)
            [] ValidText(b) /\ q # <<>> /\ AllSpace(b) -> PromptIs(q)
            [] ValidText(b) /\ q # <<>> /\ ~AllSpace(b) ->
                  PromptIs(<<"<document>", "\n">> \o b
                           \o <<"</document>", "\n", "\n">> \o q)

C9_Witness ==
    /\ pc = "loadHandlers"
    /\ args.q = <<"q">>
    /\ stdinData.bytes = <<" ", "a", "\n">>
    /\ prompt = <<"<document>", "\n", " ", "a", "\n", "</document>", "\n",
                  "\n", "q">>

----------------------------------------------------------------------------
(* The claim about attToBlock, checked under SpecAtt. *)

AttName == args.attach[1]
IsPrefixOf(p, n) == Len(p) <= Len(n) /\ \A i \in 1..Len(p) : p[i] = n[i]
FirstOf(S) == CHOOSE i \in S : \A j \in S : i <= j

\* The command of a rule for a name: cmd[0], then cmd[1:] with its first
\* "${ARG}" replaced by the name, or with the name appended if it has none.
CommandFor(cmd, n) ==
    LET holes == {i \in 2..Len(cmd) : cmd[i] = <<"${ARG}">>}
    IN IF holes = {} THEN cmd \o <<n>>
       ELSE [i \in 1..Len(cmd) |-> IF i = FirstOf(holes) THEN n ELSE cmd[i]]

\* C10 as stated: the first rule whose prefix the name starts with is the
\* one applied.
C10_AsStated ==
    LET rules == handler.byPrefix
        matching == {i \in 1..Len(rules) : IsPrefixOf(rules[i].Prefix, AttName)}
    IN (attIdx = 1 /\ matching # {}) =>
          /\ Len(rules[FirstOf(matching)].Cmd) > 0
          /\ invoked = <<CommandFor(rules[FirstOf(matching)].Cmd, AttName)>>
          /\ fileReads = <<>>

\* C10 (amended): rules with an empty prefix or an empty cmd are passed
\* over; the first other rule whose prefix the name starts with is the only
\* one applied, its command being CommandFor; if there is none, or no
\* handlers are loaded, no command is started and the name is read as a local
\* file.
C10_FirstUsableRuleApplies ==
    LET rules == handler.byPrefix
        usable == {i \in 1..Len(rules) :
                     /\ rules[i].Prefix # <<>>
                     /\ rules[i].Cmd # <<>>
                     /\ IsPrefixOf(rules[i].Prefix, AttName)}
    IN attIdx = 1 =>
          IF usable = {}
          THEN invoked = <<>> /\ fileReads = <<AttName>>
          ELSE /\ invoked = <<CommandFor(rules[FirstOf(usable)].Cmd, AttName)>>
               /\ fileReads = <<>>

\* C10 witness: the second rule is applied, the first having no prefix; only
\* the first of its two placeholders is replaced.
C10_Witness ==
    /\ attIdx = 1
    /\ Len(handler.byPrefix) = 2
    /\ handler.byPrefix[1].Prefix = <<>>
    /\ invoked = <<<< <<"curl">>, <<"h", "x">>, <<"-x">>, <<"${ARG}">> >>>>
    /\ contentBlocks = <<TextBlock(<<"<document>", "\n", "a", "\n",
                                     "</document>", "\n">>)>>

----------------------------------------------------------------------------
(* The claims about contentBlockFromFile, checked under SpecFile. *)

\* The files that were read whole and are not too big.
FilesRead == {i \in 1..Len(resolved) :
                 resolved[i].file.err = "nil" /\ ~resolved[i].file.big}

SniffedImage(b) ==
    DetectContentType(b) \in
       {"image/jpeg", "image/png", "image/gif", "image/webp", "image/bmp"}

\* The document format an extension stands for, whatever its case ("" if the
\* extension is not a recognized one).
FormatOfExt(name) ==
    LET x == name[Len(name)]
    IN CASE x \in {".pdf", ".PDF"} -> "pdf"
         [] x \in {".md", ".mkd"} -> "md"
         [] x = ".html" -> "html"
         [] x = ".doc" -> "doc"
         [] x = ".docx" -> "docx"
         [] x = ".csv" -> "csv"
         [] x \in {".txt", ".TXT"} -> "txt"
         [] OTHER -> ""

\* The document format resolved for a file that does not sniff as an image:
\* by extension, or txt by the plain-text fallback ("" if neither).
ResolvedFormat(name, b) ==
    IF FormatOfExt(name) # "" THEN FormatOfExt(name)
    ELSE IF DetectContentType(b) = "text/plain; charset=utf-8" THEN "txt"
    ELSE ""

\* C11: a file whose resolved document format is md, txt or csv and whose
\* bytes are valid text comes back as a Text block: "<document>", the file
\* name inside a <filename> tag, the bytes, "</document>"; a Document block
\* comes back only for the formats pdf, html, doc, docx, or for md, txt, csv
\* with bytes that are not valid text.
C11_PlainTextBecomesText ==
    \A i \in FilesRead :
       LET name == resolved[i].name
           b == resolved[i].file.bytes
           res == resolved[i].res
           fmt == ResolvedFormat(name, b)
           head == <<"<document>", "<filename>">> \o name
                      \o <<"</filename>", "\n">> \o b
           tail == <<"</document>", "\n">>
       IN ~SniffedImage(b) =>
             /\ (fmt \in {"md", "txt", "csv"} /\ ValidText(b)) =>
                   /\ res.err = "nil"
                   /\ res.block.type = "Text"
                   /\ res.block.value \in {head \o tail, head \o <<"\n">> \o tail}
             /\ res.block.type = "Document" =>
                   /\ res.block.format = fmt
                   /\ \/ fmt \in {"pdf", "html", "doc", "docx"}
                      \/ fmt \in {"md", "txt", "csv"} /\ ~ValidText(b)

\* C11 witness: a file without extension that sniffs as plain text.
C11_Witness ==
    /\ attIdx = 1
    /\ resolved[1].name = <<"Makefile">>
    /\ resolved[1].file.bytes = <<"a">>
    /\ contentBlocks =
          <<TextBlock(<<"<document>", "<filename>", "Makefile", "</filename>",
                        "\n", "a", "\n", "</document>", "\n">>)>>

\* C12: a file that sniffs as an image is an Image block of the sniffed
\* format (jpeg, png, gif, webp) whatever its extension, and fails as
\* unsupported for any other image type; a file that does not is classified
\* by its extension, case ignored, an unrecognized extension standing for txt
\* only when the file sniffs as plain text; every other file fails as
\* unsupported; an Image or Document block has a supported format.
C12_Classification ==
    \A i \in FilesRead :
       LET name == resolved[i].name
           b == resolved[i].file.bytes
           res == resolved[i].res
           ct == DetectContentType(b)
           unsupported == /\ res.err = "file is of unsupported content-type " \o ct
                          /\ res.block.type = "none"
       IN /\ IF SniffedImage(b)
             THEN CASE ct = "image/jpeg" -> res.block = ImageBlock("jpeg", b)
                    [] ct = "image/png" -> res.block = ImageBlock("png", b)
                    [] ct = "image/gif" -> res.block = ImageBlock("gif", b)
                    [] ct = "image/webp" -> res.block = ImageBlock("webp", b)
                    [] OTHER -> unsupported
             ELSE IF ResolvedFormat(name, b) = "" THEN unsupported
             ELSE /\ res.err = "nil"
                  /\ res.block.type \in {"Document", "Text"}
                  /\ res.block.type = "Document" =>
                        res.block.format = ResolvedFormat(name, b)
                  /\ res.block.type = "Text" =>
                        ResolvedFormat(name, b) \in {"md", "txt", "csv"}
          /\ res.block.type = "Image" =>
                res.block.format \in {"jpeg", "png", "gif", "webp"}
          /\ res.block.type = "Document" =>
                res.block.format \in
                   {"pdf", "md", "html", "doc", "docx", "csv", "txt"}

\* C12 witness: a bitmap image fails as unsupported although its extension
\* is a document's.
C12_Witness ==
    /\ attIdx = 1
    /\ resolved[1].name = <<"x", ".pdf">>
    /\ resolved[1].file.bytes = <<"BMP">>
    /\ contentBlocks = <<>>
    /\ retErr = "file is of unsupported content-type image/bmp"

----------------------------------------------------------------------------
(* The claims about the attachments of a run, checked under SpecPrograms. *)

\* The names supplied, from the i-th on, each maximal run of equal adjacent
\* names counted once.
RECURSIVE Runs(_, _)
Runs(names, i) ==
    IF i > Len(names) THEN <<>>
    ELSE (IF i = 1 \/ names[i] # names[i - 1] THEN <<names[i]>> ELSE <<>>)
         \o Runs(names, i + 1)

Supplied == Runs(args.attach, 1)

\* The unit a resolved block is in the message of the program.
UnitOf(b) ==
    IF prog = "llmcli" THEN b
    ELSE IF b.type = "Text" THEN [type |-> "text", text |-> b.value]
    ELSE [type |-> "image_url", img |-> b.value]

PromptUnit ==
    IF prog = "llmcli"
    THEN [type |-> "Text", format |-> "", value |-> prompt, name |-> <<>>]
    ELSE [type |-> "text", text |-> prompt]

\* The content list holds the prompt.
Built == Len(contentBlocks) = Len(Supplied) + 1

\* A request has been sent.
Dispatched == dispatches # <<>> \/ attempts # <<>>

\* C13: the attachments are resolved one at a time in the order supplied; the
\* content list holds the resolved units in that order; the prompt is added
\* last, and the request sent holds that list.
C13_AttachmentsInOrder ==
    /\ [](/\ attIdx = Len(resolved)
          /\ Len(resolved) <= Len(Supplied)
          /\ Len(contentBlocks) <= Len(Supplied) + 1
          /\ \A i \in 1..Len(resolved) : resolved[i].name = Supplied[i]
          /\ \A i \in 1..Len(contentBlocks) :
                IF i <= Len(Supplied)
                THEN /\ i <= Len(resolved)
                     /\ resolved[i].res.err = "nil"
                     /\ contentBlocks[i] = UnitOf(resolved[i].res.block)
                ELSE contentBlocks[i] = PromptUnit
          /\ Dispatched => Built
          /\ \A i \in 1..Len(dispatches) : dispatches[i].req.Content = contentBlocks
          /\ payload # <<>> =>
                LET user == payload[1].messages[2]
                IN IF user.plain
                   THEN Len(contentBlocks) = 1 /\ user.content = <<prompt>>
                   ELSE user.content = contentBlocks)
    /\ [][resolved' # resolved =>
             /\ Len(resolved') = Len(resolved) + 1
             /\ SubSeq(resolved', 1, Len(resolved)) = resolved
             /\ ~Built]_vars

\* C13 witness: llmcli sends a request with three attachments, the second an
\* image, and the prompt after them.
C13_Witness ==
    /\ prog = "llmcli"
    /\ Len(dispatches) = 1
    /\ args.attach = <<<<"https://", "x">>, <<"notes", ".txt">>, <<"https://", "x">>>>
    /\ Len(dispatches[1].req.Content) = 4
    /\ dispatches[1].req.Content[2].type = "Image"
    /\ dispatches[1].req.Content[4] = TextBlock(prompt)

\* The positions at which a maximal run of equal adjacent names starts.
RunStarts ==
    {i \in 1..Len(args.attach) : i = 1 \/ args.attach[i] # args.attach[i - 1]}

\* The number of run starts up to position i.
RunsUpTo(i) == Cardinality({j \in RunStarts : j <= i})

\* C19: one resolution, and one unit, for each maximal run of equal adjacent
\* names: the k-th resolution is of the name the k-th run repeats, so never
\* two for adjacent equal names, and a name supplied again after another
\* name is resolved again.
C19_AdjacentRepeatsCollapse ==
    /\ Len(resolved) <= Cardinality(RunStarts)
    /\ \A i \in RunStarts :
          RunsUpTo(i) <= Len(resolved) =>
             resolved[RunsUpTo(i)].name = args.attach[i]
    /\ \A k \in 1..(Len(resolved) - 1) : resolved[k].name # resolved[k + 1].name
    /\ Dispatched =>
          /\ Len(resolved) = Cardinality(RunStarts)
          /\ Len(contentBlocks) = Cardinality(RunStarts) + 1

\* C19 witness: of the names a a b a, the first two are resolved once and
\* the last one again.
C19_Witness ==
    /\ Dispatched
    /\ Len(args.attach) = 4
    /\ args.attach[1] = args.attach[2]
    /\ args.attach[2] # args.attach[3]
    /\ args.attach[4] = args.attach[1]
    /\ Len(resolved) = 3
    /\ resolved[1].name = resolved[3].name
    /\ resolved[1].name # resolved[2].name
    /\ Len(contentBlocks) = 4

PromptErrors ==
    {"empty prompt: please feed it over stdin and/or use the -q flag",
     "can only take valid utf8 data on stdin", "stdin read error"}

\* The i-th resolution ended the program: it failed, or (chatgpt) gave a
\* block that is neither text nor an image.
Refused(i) ==
    \/ resolved[i].res.err # "nil"
    \/ prog = "chatgpt" /\ resolved[i].res.block.type \notin {"Text", "Image"}

\* C20: a failed prompt assembly leaves every attachment unresolved; a failed
\* resolution is the last one, no command is started and no file read after
\* it, and no request is sent; a request is sent only after the prompt and
\* every attachment were resolved.
C20_FailFastBeforeDispatch ==
    /\ retErr \in PromptErrors =>
          /\ resolved = <<>> /\ invoked = <<>> /\ fileReads = <<>>
          /\ ~Dispatched
    /\ Len(invoked) + Len(fileReads) = Len(resolved)
    /\ \A i \in 1..Len(resolved) :
          Refused(i) =>
             /\ i = Len(resolved)
             /\ pc = "done"
             /\ retErr \notin {"running", "nil"}
             /\ resolved[i].res.err # "nil" => retErr = resolved[i].res.err
             /\ ~Dispatched
    /\ Dispatched =>
          /\ prompt # <<>>
          /\ Len(resolved) = Len(Supplied)
          /\ \A i \in 1..Len(resolved) : ~Refused(i)

\* C20 witness: the second of three attachments fails, the third is never
\* resolved.
C20_Witness ==
    /\ pc = "done"
    /\ Len(Supplied) = 3
    /\ Len(resolved) = 2
    /\ resolved[1].res.err = "nil"
    /\ resolved[2].res.err = "running: exit status 1"
    /\ retErr = "running: exit status 1"
    /\ Len(invoked) = 1
    /\ Len(contentBlocks) = 1
    /\ ~Dispatched

----------------------------------------------------------------------------
(* The claim about output and errors, checked under SpecOutput. *)

RECURSIVE TextsOf(_)
TextsOf(cs) == IF cs = <<>> THEN <<>> ELSE <<Head(cs).text>> \o TextsOf(Tail(cs))

\* The texts streamResponse takes from the lines it has scanned: the content
\* of every chunk line, a newline for the closing line.
RECURSIVE ContentsOf(_)
ContentsOf(ls) ==
    IF ls = <<>> THEN <<>>
    ELSE (CASE Head(ls).kind = "chunk" -> <<Head(ls).content>>
            [] Head(ls).kind = "done" -> <<"\n">>
            [] OTHER -> <<>>)
         \o ContentsOf(Tail(ls))

\* The texts produced so far: by the consumer from the events it has read,
\* by streamResponse from the lines it has scanned.
Produced ==
    IF prog = "llmcli" THEN TextsOf(AmendedProjection(events))
    ELSE ContentsOf(scanned)

RECURSIVE WithoutSeparators(_)
WithoutSeparators(o) ==
    IF o = <<>> THEN <<>>
    ELSE (IF Head(o) = "\n\n* * *\n\n" THEN <<>> ELSE <<Head(o)>>)
         \o WithoutSeparators(Tail(o))

IsPrefix(s, t) == Len(s) <= Len(t) /\ SubSeq(t, 1, Len(s)) = s

\* C14: when the program returns, with an error or without, every text
\* produced so far has been written to the output, in order; until then the
\* output is a prefix of the texts produced; the error is set only once the
\* loop over the chunks has ended; what was written is never taken back.
C14_OutputBeforeError ==
    /\ [](/\ IsPrefix(WithoutSeparators(out), Produced)
          /\ retErr # "running" =>
                /\ pc = "done"
                /\ WithoutSeparators(out) = Produced
          /\ (prog = "llmcli" /\ pc \in {"chunks", "ended", "done"}) =>
                WithoutSeparators(out) = Produced)
    /\ [][/\ IsPrefix(out, out')
          /\ retErr' # retErr =>
                (prog = "llmcli" => pc = "ended" /\ out' = out)]_vars

\* C14 witness: run returns the abnormal stop error after writing the text
\* and the newline that came before it.
C14_Witness ==
    /\ prog = "llmcli"
    /\ pc = "done"
    /\ retErr = "stop reason: max_tokens"
    /\ out = <<"Hi", "\n">>

----------------------------------------------------------------------------
(* The claims about usage and about a caller that stops, checked under      *)
(* SpecChunks and SpecCaller.                                               *)

\* C15 as stated: once set, the usage is never assigned again.
C15_AsStated == [][usage # "nil" => usage' = usage]_vars

MetadataRead == {i \in 1..Len(events) : events[i].kind = "Metadata"}

\* C15 (amended): the usage is nil until a Metadata event is read, and then
\* the usage of the latest Metadata event read; reading a Metadata event
\* hands no chunk to the caller and leaves the consumer waiting for the next
\* event.
C15_UsageIsLatestMetadata ==
    /\ [](IF MetadataRead = {} THEN usage = "nil"
          ELSE \E i \in MetadataRead :
                  /\ \A j \in MetadataRead : j <= i
                  /\ usage = events[i].sub)
    /\ [][(events' # events /\ events'[Len(events')].kind = "Metadata") =>
             /\ chunks' = chunks
             /\ pending' = <<>>
             /\ pc' = "chunks"]_vars

\* C15 witness: two Metadata events after a text; the second one's usage is
\* what Usage() gives.
C15_Witness ==
    /\ pc = "done"
    /\ Len(events) = 3
    /\ events[2] = [kind |-> "Metadata", sub |-> "u1", text |-> ""]
    /\ events[3] = [kind |-> "Metadata", sub |-> "u2", text |-> ""]
    /\ usage = "u2"
    /\ chunks = <<[text |-> "Hi", thinking |-> FALSE]>>

Returned == pc \in {"ended", "done", "stopped"}

\* C16: once yield has returned false no further event is read and no
\* further chunk handed over, and the stream is closed; however the sequence
\* ends (no more events, an abnormal stop reason, the caller stopping), the
\* stream is closed when Chunks has returned.
C16_StopsWhenCallerStops ==
    /\ [](/\ ~yieldRet => (Returned /\ closed /\ pending = <<>>)
          /\ Returned => closed)
    /\ [][~yieldRet =>
             /\ events' = events
             /\ chunks' = chunks
             /\ pending' = pending
             /\ closed']_vars

\* C16 witness: the caller stops at the first chunk, the second event.
C16_Witness ==
    /\ pc = "stopped"
    /\ ~yieldRet
    /\ Len(events) = 2
    /\ events[1].kind = "MessageStart"
    /\ chunks = <<[text |-> "Hi", thinking |-> FALSE]>>
    /\ closed
    /\ streamErr = "unread"

----------------------------------------------------------------------------
(* The claim about the separator, checked under SpecRender. *)

\* What is written for the chunks cs from the i-th on: each chunk's text,
\* and before it the separator if the chunk is not reasoning and the chunk
\* before it is.
RECURSIVE Rendering(_, _)
Rendering(cs, i) ==
    IF i > Len(cs) THEN <<>>
    ELSE (IF i > 1 /\ cs[i - 1].thinking /\ ~cs[i].thinking
          THEN <<"\n\n* * *\n\n">> ELSE <<>>)
         \o <<cs[i].text>> \o Rendering(cs, i + 1)

\* C17: the output is the texts of the chunks received, with the separator
\* once before each chunk that is not reasoning and follows a reasoning
\* chunk, and nowhere else.
C17_SeparatorAtReasoningEnd == out = Rendering(chunks, 1)

\* C17 witness: reasoning, answer, reasoning, answer: two separators.
C17_Witness ==
    /\ pc = "done"
    /\ out = <<"hm", "\n\n* * *\n\n", "Hi", "hm", "\n\n* * *\n\n", "Hi">>

----------------------------------------------------------------------------
(* The claim about the retries of chatgpt, checked under SpecChatgpt. *)

TooManyRequests == [kind |-> "status", code |-> 429]

\* C18: the request is sent at most 3 times; it is sent again only after the
\* answer 429, and after a delay longer than the one before; a success or
\* any other failure is the last attempt; every attempt sends the marshalled
\* request as the first one did.
C18_BoundedRetry ==
    /\ Len(attempts) <= 3
    /\ \A i \in 1..Len(attempts) :
          /\ attempts[i].body = attempts[1].body
          /\ attempts[i].body = payload
          /\ i > 1 => attempts[i - 1].res.err = TooManyRequests
          /\ (attempts[i].res.err # TooManyRequests \/ i = 3) =>
                /\ i = Len(attempts)
                /\ pc # "gpt:attempt"
          /\ (~attempts[i].res.ok /\ i = Len(attempts) /\ pc # "gpt:attempt") =>
                /\ pc = "done"
                /\ out = <<>>
          /\ i < Len(attempts) => Len(sleeps) >= i
    /\ Len(sleeps) <= 2
    /\ Len(sleeps) <= Len(attempts)
    /\ \A i \in 1..Len(sleeps) : \A j \in 1..Len(sleeps) :
          i < j => sleeps[i] < sleeps[j]

\* C18 witness: three attempts answered 429; the third one's error is
\* returned.
C18_Witness ==
    /\ pc = "done"
    /\ Len(attempts) = 3
    /\ \A i \in 1..3 : attempts[i].res.err = TooManyRequests
    /\ Len(sleeps) = 2
    /\ retErr = "unexpected status: 429"

====
